---- MODULE Spec2Model ----
(***************************************************************************)
(* Model of examples/rust_example.rs: the platform binary resolver, the    *)
(* extension loader, main and the IcuSearch helper.                        *)
(*                                                                         *)
(* Strings are modelled as sequences of text pieces: a literal is a        *)
(* sequence of pieces, format!/concatenation is \o, and `contains` is a    *)
(* search for a piece.  A Box<dyn Error> is a record with the concrete     *)
(* error type behind the box and its Display text.                         *)
(***************************************************************************)
EXTENDS Integers, Sequences, FiniteSets, TLC

(* ----------------------------- bounds ---------------------------------- *)

\* number of database connections the process opens
NumConns == 2
\* number of IcuSearch method calls (create_table, insert_document, search)
\* the process makes
MaxCalls == 3

Conns == 1..NumConns

(* ------------------------ runtime environment -------------------------- *)

\* values std::env::consts::OS / ARCH may take (a supported and an
\* unsupported choice of each)
OsNames == {"linux", "macos", "windows", "freebsd"}
ArchNames == {"x86_64", "aarch64"}

LinuxBinary == <<"fts5icu-", "linux-x86_64", ".so">>
DarwinX86Binary == <<"fts5icu-", "darwin-x86_64", ".dylib">>
DarwinArmBinary == <<"fts5icu-", "darwin-arm64", ".dylib">>
Win32Binary == <<"fts5icu-", "win32-x86_64", ".dll">>

AllBinaries == {LinuxBinary, DarwinX86Binary, DarwinArmBinary, Win32Binary}

\* the release file the working directory holds once it is downloaded
Downloaded == {LinuxBinary}

\* errors the engine's load_extension can report for an existing file
EngineErrors == {<<"cannot open shared object file">>, <<"undefined symbol: icu">>}
NotAuthorized == <<"not authorized">>

Range(s) == {s[i] : i \in 1..Len(s)}

\* str::contains, on piece sequences
contains(s, piece) == piece \in Range(s)

(* --------------------------- Binary Resolver --------------------------- *)

\* a resolver with a default binary for unknown architectures of a known os
get_platform_binary_default(os_, arch_) ==
    CASE os_ = "linux" -> [ok |-> TRUE, val |-> LinuxBinary]
      [] os_ = "macos" /\ arch_ = "aarch64" -> [ok |-> TRUE, val |-> DarwinArmBinary]
      [] os_ = "macos" -> [ok |-> TRUE, val |-> DarwinX86Binary]
      [] os_ = "windows" -> [ok |-> TRUE, val |-> Win32Binary]
      [] OTHER -> [ok |-> FALSE,
                   val |-> <<"No pre-built binary available for ", os_, "-", arch_>>]

\* fn get_platform_binary() -> Result<String, String>, as a function of the
\* two environment constants it reads
get_platform_binary(os_, arch_) ==
    CASE os_ = "linux" /\ arch_ = "x86_64" -> [ok |-> TRUE, val |-> LinuxBinary]
      [] os_ = "macos" /\ arch_ = "x86_64" -> [ok |-> TRUE, val |-> DarwinX86Binary]
      [] os_ = "macos" /\ arch_ = "aarch64" -> [ok |-> TRUE, val |-> DarwinArmBinary]
      [] os_ = "windows" /\ arch_ = "x86_64" -> [ok |-> TRUE, val |-> Win32Binary]
      [] OTHER -> [ok |-> FALSE,
                   val |-> <<"No pre-built binary available for ", os_, "-", arch_>>]

(* ------------------------------ results -------------------------------- *)

NoResult == [state |-> "none", type |-> "", msg |-> <<>>]
OkResult == [state |-> "Ok", type |-> "", msg |-> <<>>]

\* a message that drops the resolver's text
PlatformErr_plain(e) ==
    [state |-> "Err", type |-> "String", msg |-> <<"Platform detection failed">>]

\* .map_err(|e| format!("Platform detection failed: {}", e))? : a String
\* boxed into Box<dyn Error>
PlatformErr(e) ==
    [state |-> "Err", type |-> "String", msg |-> <<"Platform detection failed: ">> \o e]

\* an error value that carries the missing file's name
BinaryNotFoundErr_named(name) ==
    [state |-> "Err", type |-> "String", msg |-> <<"Binary not found: ">> \o name]

\* return Err("Binary not found".into())
BinaryNotFoundErr(name) ==
    [state |-> "Err", type |-> "String", msg |-> <<"Binary not found">>]

\* the Err(e) of conn.load_extension: a rusqlite::Error with the engine's text
EngineErr(e) == [state |-> "Err", type |-> "rusqlite::Error", msg |-> e]

\* a loader that reports a load failure as a fixed message of its own
LoadErr_generic(e) ==
    [state |-> "Err", type |-> "String", msg |-> <<"Binary not found">>]

\* Err(e.into()) : the rusqlite error, boxed as it is
LoadErr(e) ==
    [state |-> "Err", type |-> e.type, msg |-> e.msg]

(* ------------------------------- state --------------------------------- *)

VARIABLES
    os,           \* env::consts::OS
    arch,         \* env::consts::ARCH
    files,        \* the file names that exist in the working directory
    owner,        \* who opened each connection: "none", "main", "IcuSearch"
    pc,           \* position of setup_icu_extension on each connection
    flag,         \* the connection's extension-loading permission
    loaded,       \* whether the extension is registered on the connection
    binary_name,  \* the local binary_name of the invocation
    ops,          \* operations issued on the connection, in order
    fsChecks,     \* paths whose existence the invocation has checked
    loadRes,      \* what load_extension returned to the invocation
    result,       \* what setup_icu_extension returned
    stderr,       \* diagnostic lines the invocation and its caller wrote
    caller,       \* the caller's position after the loader returned
    sql,          \* full-text statements issued on the connection
    tbl,          \* the full-text table of the connection
    lastSearch    \* the latest IcuSearch::search call and its result

envVars == <<os, arch, files>>
loaderVars == <<pc, flag, loaded, binary_name, ops, fsChecks, loadRes, result>>
callerVars == <<owner, caller>>
dbVars == <<sql, tbl, lastSearch>>
vars == <<os, arch, files, owner, pc, flag, loaded, binary_name, ops, fsChecks,
          loadRes, result, stderr, caller, sql, tbl, lastSearch>>

Op(kind, arg) == [op |-> kind, arg |-> arg]

NoTable == [exists |-> FALSE, name |-> "", columns |-> <<>>, rows |-> <<>>]
NoSearch == [done |-> FALSE, query |-> "", nrows |-> 0, ok |-> FALSE, hits |-> <<>>]
NoSql == [create |-> 0, insert |-> 0, match |-> 0]

Init ==
    /\ os \in OsNames
    /\ arch \in ArchNames
    /\ files \in {{}, Downloaded}
    /\ owner = [c \in Conns |-> "none"]
    /\ pc = [c \in Conns |-> "closed"]
    /\ flag = [c \in Conns |-> FALSE]
    /\ loaded = [c \in Conns |-> FALSE]
    /\ binary_name = [c \in Conns |-> <<>>]
    /\ ops = [c \in Conns |-> <<>>]
    /\ fsChecks = [c \in Conns |-> <<>>]
    /\ loadRes = [c \in Conns |-> NoResult]
    /\ result = [c \in Conns |-> NoResult]
    /\ stderr = [c \in Conns |-> <<>>]
    /\ caller = [c \in Conns |-> "none"]
    /\ sql = [c \in Conns |-> NoSql]
    /\ tbl = [c \in Conns |-> NoTable]
    /\ lastSearch = [c \in Conns |-> NoSearch]

(* ------------------------- opening connections ------------------------- *)

\* main: let conn = Connection::open_in_memory()?; then the call of
\* setup_icu_extension(&conn).  A process has one main.
MainOpen(c) ==
    /\ pc[c] = "closed"
    /\ \A d \in Conns : owner[d] # "main"
    /\ owner' = [owner EXCEPT ![c] = "main"]
    /\ pc' = [pc EXCEPT ![c] = "resolve"]
    /\ caller' = [caller EXCEPT ![c] = "calling"]
    /\ UNCHANGED <<envVars, flag, loaded, binary_name, ops, fsChecks, loadRes,
                   result, stderr, dbVars>>

DbPaths == {":memory:", "search.db"}

\* IcuSearch::new: both branches on db_path open a connection, then the call
\* of setup_icu_extension(&conn)
IcuSearchOpen(c, db_path) ==
    /\ pc[c] = "closed"
    /\ owner' = [owner EXCEPT ![c] = "IcuSearch"]
    /\ pc' = [pc EXCEPT ![c] = "resolve"]
    /\ caller' = [caller EXCEPT ![c] = "calling"]
    /\ UNCHANGED <<envVars, flag, loaded, binary_name, ops, fsChecks, loadRes,
                   result, stderr, dbVars>>

(* --------------------------- Extension Loader -------------------------- *)

\* let binary_name = get_platform_binary().map_err(...)?;
L_Resolve(c) ==
    /\ pc[c] = "resolve"
    /\ LET r == get_platform_binary(os, arch) IN
         IF r.ok
           THEN /\ binary_name' = [binary_name EXCEPT ![c] = r.val]
                /\ pc' = [pc EXCEPT ![c] = "exists"]
                /\ UNCHANGED result
           ELSE /\ result' = [result EXCEPT ![c] = PlatformErr(r.val)]
                /\ pc' = [pc EXCEPT ![c] = "returned"]
                /\ UNCHANGED binary_name
    /\ UNCHANGED <<envVars, callerVars, flag, loaded, ops, fsChecks, loadRes,
                   stderr, dbVars>>

\* a loader that opens the bracket before it looks for the file
L_Exists_late(c) ==
    /\ pc[c] = "exists"
    /\ fsChecks' = [fsChecks EXCEPT ![c] = Append(@, binary_name[c])]
    /\ IF binary_name[c] \in files
         THEN /\ pc' = [pc EXCEPT ![c] = "enable"]
              /\ UNCHANGED <<result, stderr, ops>>
         ELSE /\ ops' = [ops EXCEPT ![c] = @ \o <<Op("enable", <<>>), Op("disable", <<>>)>>]
              /\ stderr' = [stderr EXCEPT ![c] =
                    @ \o << <<"Binary not found: ">> \o binary_name[c],
                            <<"Please download from: releases/latest">> >>]
              /\ result' = [result EXCEPT ![c] = BinaryNotFoundErr(binary_name[c])]
              /\ pc' = [pc EXCEPT ![c] = "returned"]
    /\ UNCHANGED <<envVars, callerVars, flag, loaded, binary_name, loadRes, dbVars>>

\* if !std::path::Path::new(&binary_name).exists() { eprintln!...; return Err }
L_Exists(c) ==
    /\ pc[c] = "exists"
    /\ fsChecks' = [fsChecks EXCEPT ![c] = Append(@, binary_name[c])]
    /\ IF binary_name[c] \in files
         THEN /\ pc' = [pc EXCEPT ![c] = "enable"]
              /\ UNCHANGED <<result, stderr>>
         ELSE /\ stderr' = [stderr EXCEPT ![c] =
                    @ \o << <<"Binary not found: ">> \o binary_name[c],
                            <<"Please download from: releases/latest">> >>]
              /\ result' = [result EXCEPT ![c] = BinaryNotFoundErr(binary_name[c])]
              /\ pc' = [pc EXCEPT ![c] = "returned"]
    /\ UNCHANGED <<envVars, callerVars, flag, loaded, binary_name, ops, loadRes,
                   dbVars>>

\* a permission that is one flag for the whole process
L_Enable_global(c) ==
    /\ pc[c] = "enable"
    /\ flag' = [d \in Conns |-> TRUE]
    /\ ops' = [ops EXCEPT ![c] = Append(@, Op("enable", <<>>))]
    /\ pc' = [pc EXCEPT ![c] = "load"]
    /\ UNCHANGED <<envVars, callerVars, loaded, binary_name, fsChecks, loadRes,
                   result, stderr, dbVars>>

\* conn.load_extension_enable();
L_Enable(c) ==
    /\ pc[c] = "enable"
    /\ flag' = [flag EXCEPT ![c] = TRUE]
    /\ ops' = [ops EXCEPT ![c] = Append(@, Op("enable", <<>>))]
    /\ pc' = [pc EXCEPT ![c] = "load"]
    /\ UNCHANGED <<envVars, callerVars, loaded, binary_name, fsChecks, loadRes,
                   result, stderr, dbVars>>

\* what the engine answers to load_extension(path): it refuses while the
\* connection's permission is off, and loading an existing file may still fail
EngineLoad(c) ==
    IF flag[c]
      THEN {OkResult} \cup {EngineErr(e) : e \in EngineErrors}
      ELSE {EngineErr(NotAuthorized)}

\* a loader that tries the load again after a failure
L_Load_retry(c) ==
    /\ pc[c] = "load"
    /\ \E r \in EngineLoad(c) :
         /\ loadRes' = [loadRes EXCEPT ![c] = r]
         /\ loaded' = [loaded EXCEPT ![c] = (r.state = "Ok")]
         /\ pc' = [pc EXCEPT ![c] = IF r.state = "Ok" THEN "disable_ok"
                                     ELSE IF Len(ops[c]) < 2 THEN "load"
                                     ELSE "disable_err"]
    /\ ops' = [ops EXCEPT ![c] = Append(@, Op("load", binary_name[c]))]
    /\ UNCHANGED <<envVars, callerVars, flag, binary_name, fsChecks, result,
                   stderr, dbVars>>

\* match conn.load_extension(&binary_name, None) { Ok(_) => ..., Err(e) => ... }
L_Load(c) ==
    /\ pc[c] = "load"
    /\ \E r \in EngineLoad(c) :
         /\ loadRes' = [loadRes EXCEPT ![c] = r]
         /\ loaded' = [loaded EXCEPT ![c] = (r.state = "Ok")]
         /\ pc' = [pc EXCEPT ![c] = IF r.state = "Ok" THEN "disable_ok"
                                                       ELSE "disable_err"]
    /\ ops' = [ops EXCEPT ![c] = Append(@, Op("load", binary_name[c]))]
    /\ UNCHANGED <<envVars, callerVars, flag, binary_name, fsChecks, result,
                   stderr, dbVars>>

\* Ok(_) => { println!(...); conn.load_extension_disable(); Ok(()) }
L_DisableOk(c) ==
    /\ pc[c] = "disable_ok"
    /\ flag' = [flag EXCEPT ![c] = FALSE]
    /\ ops' = [ops EXCEPT ![c] = Append(@, Op("disable", <<>>))]
    /\ result' = [result EXCEPT ![c] = OkResult]
    /\ pc' = [pc EXCEPT ![c] = "returned"]
    /\ UNCHANGED <<envVars, callerVars, loaded, binary_name, fsChecks, loadRes,
                   stderr, dbVars>>

\* a failure arm that returns without closing the bracket
L_DisableErr_leak(c) ==
    /\ pc[c] = "disable_err"
    /\ stderr' = [stderr EXCEPT ![c] =
           @ \o << <<"Failed to load ICU extension: ">> \o loadRes[c].msg,
                   <<"Make sure:">> >>]
    /\ result' = [result EXCEPT ![c] = LoadErr(loadRes[c])]
    /\ pc' = [pc EXCEPT ![c] = "returned"]
    /\ UNCHANGED <<envVars, callerVars, flag, ops, loaded, binary_name, fsChecks,
                   loadRes, dbVars>>

\* Err(e) => { conn.load_extension_disable(); eprintln!(...); Err(e.into()) }
L_DisableErr(c) ==
    /\ pc[c] = "disable_err"
    /\ flag' = [flag EXCEPT ![c] = FALSE]
    /\ ops' = [ops EXCEPT ![c] = Append(@, Op("disable", <<>>))]
    /\ stderr' = [stderr EXCEPT ![c] =
           @ \o << <<"Failed to load ICU extension: ">> \o loadRes[c].msg,
                   <<"Make sure:">> >>]
    /\ result' = [result EXCEPT ![c] = LoadErr(loadRes[c])]
    /\ pc' = [pc EXCEPT ![c] = "returned"]
    /\ UNCHANGED <<envVars, callerVars, loaded, binary_name, fsChecks, loadRes,
                   dbVars>>

setup_icu_extension(c) ==
    \/ L_Resolve(c)
    \/ L_Exists(c)
    \/ L_Enable(c)
    \/ L_Load(c)
    \/ L_DisableOk(c)
    \/ L_DisableErr(c)

(* ------------------------------- callers ------------------------------- *)

\* main: if let Err(e) = setup_icu_extension(&conn) { eprintln!(...); return Err(e); }
MainReturn(c) ==
    /\ owner[c] = "main" /\ caller[c] = "calling" /\ pc[c] = "returned"
    /\ IF result[c].state = "Err"
         THEN /\ stderr' = [stderr EXCEPT ![c] = Append(@,
                    <<"Exiting due to extension loading failure: ">> \o result[c].msg)]
              /\ caller' = [caller EXCEPT ![c] = "failed"]
         ELSE /\ caller' = [caller EXCEPT ![c] = "ready"]
              /\ UNCHANGED stderr
    /\ UNCHANGED <<envVars, owner, loaderVars, dbVars>>

\* a constructor that ignores the loader's result
IcuSearchReturn_always(c) ==
    /\ owner[c] = "IcuSearch" /\ caller[c] = "calling" /\ pc[c] = "returned"
    /\ caller' = [caller EXCEPT ![c] = "ready"]
    /\ UNCHANGED <<envVars, owner, loaderVars, stderr, dbVars>>

\* IcuSearch::new: setup_icu_extension(&conn)?; Ok(IcuSearch { conn })
\* caller "ready" : the IcuSearch instance exists; "failed" : new returned Err
IcuSearchReturn(c) ==
    /\ owner[c] = "IcuSearch" /\ caller[c] = "calling" /\ pc[c] = "returned"
    /\ caller' = [caller EXCEPT ![c] = IF result[c].state = "Err" THEN "failed"
                                                                   ELSE "ready"]
    /\ UNCHANGED <<envVars, owner, loaderVars, stderr, dbVars>>

(* --------------------------- database engine --------------------------- *)

Text(v) == [type |-> "Text", v |-> v]
Integer(n) == [type |-> "Integer", v |-> n]

\* the tokenizer: splits a text into its searchable terms
Tokens(text) == Range(text)

\* <table> MATCH ? with a one-term query: some column of the row has the term
Matches(row, query) ==
    \E k \in 1..Len(row) : row[k].type = "Text" /\ query \in Tokens(row[k].v)

\* CREATE VIRTUAL TABLE <name> USING fts5(<columns>, tokenize='icu'): needs
\* the tokenizer the extension registers, and a name that is not taken
ExecCreate(c, name, columns) ==
    IF loaded[c] /\ ~tbl[c].exists
      THEN [exists |-> TRUE, name |-> name, columns |-> columns, rows |-> <<>>]
      ELSE tbl[c]

\* INSERT INTO <name> VALUES (?, ...): one bound value per column
ExecInsert(c, name, row) ==
    IF tbl[c].exists /\ tbl[c].name = name /\ Len(row) = Len(tbl[c].columns)
      THEN [tbl[c] EXCEPT !.rows = Append(@, row)]
      ELSE tbl[c]

(* -------------------------------- main --------------------------------- *)

\* main: conn.execute("CREATE VIRTUAL TABLE documents USING fts5(id, title,
\* content, tokenize='icu')", [])?
MainCreate(c) ==
    /\ owner[c] = "main" /\ caller[c] = "ready"
    /\ sql' = [sql EXCEPT ![c].create = @ + 1]
    /\ tbl' = [tbl EXCEPT ![c] = ExecCreate(c, "documents", <<"id", "title", "content">>)]
    /\ caller' = [caller EXCEPT ![c] = "insert"]
    /\ UNCHANGED <<envVars, owner, loaderVars, stderr, lastSearch>>

\* main's test_documents: (id, title, content)
test_documents ==
    << <<1, <<"database", "intro">>, <<"SQLite", "database", "FTS5", "fulltext", "search">> >>,
       <<2, <<"Machine", "Learning", "Guide">>, <<"machine", "learning", "Python">> >>,
       <<3, <<"language", "processing">>, <<"ICU", "nihongo", "text">> >>,
       <<4, <<"Web", "Development">>, <<"web", "JavaScript", "database">> >>,
       <<5, <<"data", "science">>, <<"Python", "data", "analysis", "pandas">> >> >>

RECURSIVE InsertAll(_, _, _)
InsertAll(t, docs, k) ==
    IF k > Len(docs) THEN t
    ELSE InsertAll([t EXCEPT !.rows = Append(@,
                       <<Integer(docs[k][1]), Text(docs[k][2]), Text(docs[k][3])>>)],
                   docs, k + 1)

\* main: for (id, title, content) in &test_documents {
\*           insert_stmt.execute(params![id, title, content])?; }
\* params! binds the i32 id as an integer and the two &str as text
MainInsert(c) ==
    /\ owner[c] = "main" /\ caller[c] = "insert"
    /\ sql' = [sql EXCEPT ![c].insert = @ + Len(test_documents)]
    /\ tbl' = [tbl EXCEPT ![c] = InsertAll(@, test_documents, 1)]
    /\ caller' = [caller EXCEPT ![c] = "search"]
    /\ UNCHANGED <<envVars, owner, loaderVars, stderr, lastSearch>>

\* main's MATCH statements: 5 search examples, the boolean search, the phrase
\* search and 4 performance queries
MainQueries == 11

\* main: the search examples and the advanced features, then Ok(())
MainSearch(c) ==
    /\ owner[c] = "main" /\ caller[c] = "search"
    /\ sql' = [sql EXCEPT ![c].match = @ + MainQueries]
    /\ caller' = [caller EXCEPT ![c] = "done"]
    /\ UNCHANGED <<envVars, owner, loaderVars, stderr, tbl, lastSearch>>

(* ------------------------------ IcuSearch ------------------------------ *)

RECURSIVE Calls(_)
\* the number of IcuSearch method calls made so far on connections 1..n
Calls(n) ==
    IF n = 0 THEN 0
    ELSE Calls(n - 1) + (IF owner[n] = "IcuSearch"
                           THEN sql[n].create + sql[n].insert + sql[n].match
                           ELSE 0)

TableNames == {"test_docs"}
ColumnSets == {<<"id", "title", "content">>, <<"title", "content">>}

\* arguments of insert_document: &[&str]
ValueSets ==
    { << <<"1">>, <<"test">>, <<"this", "is", "test", "doc">> >>,
      << <<"2">>, <<"guide">>, <<"machine", "learning", "test">> >> }

Queries == {"test", "machine"}

\* pub fn create_table(&self, table_name, columns)
create_table(c, table_name, columns) ==
    /\ owner[c] = "IcuSearch" /\ caller[c] = "ready"
    /\ Calls(NumConns) < MaxCalls
    /\ sql' = [sql EXCEPT ![c].create = @ + 1]
    /\ tbl' = [tbl EXCEPT ![c] = ExecCreate(c, table_name, columns)]
    /\ UNCHANGED <<envVars, callerVars, loaderVars, stderr, lastSearch>>

RECURSIVE BindText(_)
\* rusqlite::params_from_iter(values.iter()) over &str: each value is bound
\* as text
BindText(values) ==
    IF values = <<>> THEN <<>>
    ELSE <<Text(Head(values))>> \o BindText(Tail(values))

\* pub fn insert_document(&self, table_name, values: &[&str])
insert_document(c, table_name, values) ==
    /\ owner[c] = "IcuSearch" /\ caller[c] = "ready"
    /\ Calls(NumConns) < MaxCalls
    /\ sql' = [sql EXCEPT ![c].insert = @ + 1]
    /\ tbl' = [tbl EXCEPT ![c] = ExecInsert(c, table_name, BindText(values))]
    /\ UNCHANGED <<envVars, callerVars, loaderVars, stderr, lastSearch>>

\* LIMIT 50
SearchLimit == 50

Min(a, b) == IF a < b THEN a ELSE b

\* the position of a named column in the table
ColumnIndex(columns, name) ==
    IF \E k \in 1..Len(columns) : columns[k] = name
      THEN CHOOSE k \in 1..Len(columns) : columns[k] = name
      ELSE 0

\* row.get(0)? into SearchResult.id: i32 -- FromSql for i32 accepts an
\* integer value only
GetI32(value) == [ok |-> value.type = "Integer", v |-> value.v]

\* row.get(1)? into SearchResult.title: String -- accepts a text value only
GetString(value) == [ok |-> value.type = "Text", v |-> value.v]

\* the orders in which the engine may return the matching rows (bm25 is the
\* engine's): the permutations of the matching row numbers
Orders(matching) ==
    {o \in [1..Cardinality(matching) -> matching] :
        \A i, j \in 1..Cardinality(matching) : i # j => o[i] # o[j]}

\* what search returns for the rows in the given order: Err when the
\* statement cannot be prepared or a row fails to convert
SearchOutcome(t, table_name, query, order) ==
    LET idc == ColumnIndex(t.columns, "id")
        tic == ColumnIndex(t.columns, "title")
        prepared == t.exists /\ t.name = table_name /\ idc > 0 /\ tic > 0
                    /\ Len(t.columns) >= 3
        n == Min(Len(order), SearchLimit)
    IN  IF ~prepared
          THEN [ok |-> FALSE, hits |-> <<>>]
          ELSE IF \A i \in 1..n : /\ GetI32(t.rows[order[i]][idc]).ok
                                   /\ GetString(t.rows[order[i]][tic]).ok
                 THEN [ok |-> TRUE,
                       hits |-> [i \in 1..n |->
                                   [id |-> GetI32(t.rows[order[i]][idc]).v,
                                    title |-> GetString(t.rows[order[i]][tic]).v]]]
                 ELSE [ok |-> FALSE, hits |-> <<>>]

\* pub fn search(&self, table_name, query) -> Result<Vec<SearchResult>>
search(c, table_name, query) ==
    /\ owner[c] = "IcuSearch" /\ caller[c] = "ready"
    /\ Calls(NumConns) < MaxCalls
    /\ sql' = [sql EXCEPT ![c].match = @ + 1]
    /\ LET matching == {i \in 1..Len(tbl[c].rows) : Matches(tbl[c].rows[i], query)} IN
         \E order \in Orders(matching) :
            LET r == SearchOutcome(tbl[c], table_name, query, order) IN
              lastSearch' = [lastSearch EXCEPT ![c] =
                  [done |-> TRUE, query |-> query, nrows |-> Len(tbl[c].rows),
                   ok |-> r.ok, hits |-> r.hits]]
    /\ UNCHANGED <<envVars, callerVars, loaderVars, stderr, tbl>>

Next ==
    \/ \E c \in Conns : MainOpen(c)
    \/ \E c \in Conns, p \in DbPaths : IcuSearchOpen(c, p)
    \/ \E c \in Conns : setup_icu_extension(c)
    \/ \E c \in Conns : MainReturn(c)
    \/ \E c \in Conns : IcuSearchReturn(c)
    \/ \E c \in Conns : MainCreate(c)
    \/ \E c \in Conns : MainInsert(c)
    \/ \E c \in Conns : MainSearch(c)
    \/ \E c \in Conns, t \in TableNames, cols \in ColumnSets : create_table(c, t, cols)
    \/ \E c \in Conns, t \in TableNames, v \in ValueSets : insert_document(c, t, v)
    \/ \E c \in Conns, t \in TableNames, q \in Queries : search(c, t, q)

Spec == Init /\ [][Next]_vars

(* ============================== properties ============================== *)

\* the lookup table of the Binary Resolver
LookupTable ==
    { <<"linux", "x86_64", LinuxBinary>>,
      <<"macos", "x86_64", DarwinX86Binary>>,
      <<"macos", "aarch64", DarwinArmBinary>>,
      <<"windows", "x86_64", Win32Binary>> }

Supported == \E e \in LookupTable : e[1] = os /\ e[2] = arch

\* the invocation on c has resolved (or failed to resolve) the platform
Resolved(c) == pc[c] \notin {"closed", "resolve"}

\* the invocation on c has returned
Returned(c) == pc[c] = "returned"

\* the invocation on c found no file at the resolved path
FileAbsent(c) == Returned(c) /\ fsChecks[c] # <<>> /\ binary_name[c] \notin files

\* the invocation on c found the file at the resolved path
FilePresent(c) == fsChecks[c] # <<>> /\ binary_name[c] \in files

IsPrefix(s, t) == Len(s) <= Len(t) /\ \A i \in 1..Len(s) : s[i] = t[i]

\* s occurs in t as a contiguous run of pieces
Carries(t, s) ==
    \E i \in 1..(Len(t) - Len(s) + 1) : SubSeq(t, i, i + Len(s) - 1) = s

Bracket(name) == <<Op("enable", <<>>), Op("load", name), Op("disable", <<>>)>>

\* what a caller can tell from the failure value alone
Kind(r) ==
    IF r.state # "Err" THEN "none"
    ELSE IF r.type = "rusqlite::Error" THEN "ExtensionLoadFailed"
    ELSE IF r.msg # <<>> /\ r.msg[1] = "Platform detection failed: " THEN "UnsupportedPlatform"
    ELSE IF r.msg = <<"Binary not found">> THEN "BinaryNotFound"
    ELSE "unknown"

\* why the invocation on c failed
Cause(c) ==
    IF loadRes[c].state = "Err" THEN "ExtensionLoadFailed"
    ELSE IF fsChecks[c] # <<>> /\ binary_name[c] \notin files THEN "BinaryNotFound"
    ELSE IF binary_name[c] = <<>> THEN "UnsupportedPlatform"
    ELSE "none"

\* C1: once an invocation has resolved the platform, a pair of the lookup
\* table has given exactly the listed file name, every resolved name contains
\* "fts5icu-", and any other pair has given no name but the
\* platform-detection failure.
C1_Resolution ==
    \A c \in Conns : Resolved(c) =>
        /\ \A e \in LookupTable :
              (os = e[1] /\ arch = e[2]) => binary_name[c] = e[3]
        /\ binary_name[c] # <<>> => contains(binary_name[c], "fts5icu-")
        /\ ~Supported =>
              /\ binary_name[c] = <<>>
              /\ Returned(c)
              /\ Kind(result[c]) = "UnsupportedPlatform"

C1_Witness ==
    /\ \E c \in Conns : os = "macos" /\ arch = "aarch64" /\ binary_name[c] = DarwinArmBinary
    /\ \E c \in Conns : Resolved(c)

\* C2: when setup_icu_extension has returned, on any exit path, the
\* connection's extension-loading permission is off.
C2_FlagOffAfterReturn ==
    \A c \in Conns : Returned(c) => flag[c] = FALSE

C2_Witness ==
    \E c \in Conns : Returned(c) /\ loadRes[c].state = "Err" /\ Len(ops[c]) = 3

\* C3: an invocation that found no file at the resolved path has failed with
\* the not-found error without any operation on the connection: no enable,
\* no load call, no disable.
C3_AbsentUntouched ==
    \A c \in Conns : FileAbsent(c) =>
        /\ result[c].state = "Err"
        /\ Kind(result[c]) = "BinaryNotFound"
        /\ ops[c] = <<>>
        /\ loadRes[c] = NoResult
        /\ flag[c] = FALSE /\ loaded[c] = FALSE

C3_Witness ==
    \E c \in Conns : FileAbsent(c) /\ result[c].state = "Err"

C5_Bracket ==
    \A c \in Conns :
        /\ IsPrefix(ops[c], Bracket(binary_name[c]))
        /\ flag[c] <=> (Len(ops[c]) \in {1, 2})
        /\ loadRes[c].msg # NotAuthorized
        /\ (Returned(c) /\ FilePresent(c)) =>
              /\ ops[c] = Bracket(binary_name[c])
              /\ fsChecks[c] = <<binary_name[c]>>

C5_Witness ==
    \E c \in Conns : Returned(c) /\ FilePresent(c) /\ Len(ops[c]) = 3
                     /\ loadRes[c].state = "Ok"

\* C6: a returned invocation reports success exactly when the load call was
\* made and succeeded, and a failed load call is reported as the engine's
\* own error, with its type and text unchanged.
C6_SuccessIffLoaded ==
    \A c \in Conns : Returned(c) =>
        /\ (result[c].state = "Ok") <=>
              (loadRes[c].state = "Ok" /\ loaded[c]
               /\ \E i \in 1..Len(ops[c]) : ops[c][i].op = "load")
        /\ loadRes[c].state = "Err" =>
              /\ result[c].state = "Err"
              /\ result[c].type = "rusqlite::Error"
              /\ result[c].msg = loadRes[c].msg
              /\ ~loaded[c]

C6_Witness ==
    \E c, d \in Conns :
        /\ Returned(c) /\ result[c].state = "Ok"
        /\ Returned(d) /\ result[d].type = "rusqlite::Error"

\* C7: on a platform outside the lookup table the invocation fails with the
\* platform-detection failure whose text names the os and the arch, with no
\* existence check and no operation on the connection.
C7_UnsupportedNoIO ==
    \A c \in Conns : (Returned(c) /\ ~Supported) =>
        /\ Kind(result[c]) = "UnsupportedPlatform"
        /\ contains(result[c].msg, os) /\ contains(result[c].msg, arch)
        /\ fsChecks[c] = <<>>
        /\ ops[c] = <<>>
        /\ flag[c] = FALSE /\ loaded[c] = FALSE /\ loadRes[c] = NoResult

C7_Witness ==
    \E c \in Conns : Returned(c) /\ os = "freebsd" /\ arch = "x86_64"
                     /\ result[c].state = "Err"

\* C8: a connection on which a full-text statement was issued, or that an
\* IcuSearch instance holds, or on which main went past the loader, is one
\* whose loader returned success with the extension loaded; after a loader
\* failure the caller has failed and issued nothing.
C8_NoSqlWithoutExtension ==
    \A c \in Conns :
        /\ (sql[c] # NoSql \/ caller[c] \in {"ready", "insert", "search", "done"}) =>
              (Returned(c) /\ result[c].state = "Ok" /\ loaded[c])
        /\ (Returned(c) /\ result[c].state = "Err" /\ caller[c] # "calling") =>
              (caller[c] = "failed" /\ sql[c] = NoSql /\ ~tbl[c].exists)

C8_Witness ==
    /\ \E c \in Conns : owner[c] = "main" /\ caller[c] = "done" /\ sql[c].match > 0
    /\ \E c \in Conns : owner[c] = "IcuSearch" /\ sql[c].insert > 0

\* the i32 a decimal text stands for
Decimal(text) == IF text = <<"1">> THEN 1 ELSE IF text = <<"2">> THEN 2 ELSE 0

\* C9: after a search on a table with the columns (id, title, content), for
\* a term that a stored document contains, the call has returned a list
\* that is not empty, has at most 50 entries and holds the id of every such
\* document.
C9_RoundTrip ==
    \A c \in Conns :
        (/\ owner[c] = "IcuSearch" /\ lastSearch[c].done
         /\ tbl[c].columns = <<"id", "title", "content">>
         /\ \E i \in 1..lastSearch[c].nrows : Matches(tbl[c].rows[i], lastSearch[c].query))
        => /\ lastSearch[c].ok
           /\ Len(lastSearch[c].hits) > 0
           /\ Len(lastSearch[c].hits) <= 50
           /\ \A i \in 1..lastSearch[c].nrows :
                 Matches(tbl[c].rows[i], lastSearch[c].query) =>
                    \E k \in 1..Len(lastSearch[c].hits) :
                        lastSearch[c].hits[k].id = Decimal(tbl[c].rows[i][1].v)

\* C10: a step of the loader on one connection changes neither the
\* permission, nor the operations, nor the extension of any other connection,
\* and whenever it returns, its own connection has the permission off and saw
\* either nothing or its whole bracket.
C10_ConnectionLocal ==
    [][\A c \in Conns : pc'[c] # pc[c] =>
          /\ \A d \in Conns \ {c} :
                pc'[d] = pc[d] =>
                   (flag'[d] = flag[d] /\ ops'[d] = ops[d] /\ loaded'[d] = loaded[d])
          /\ pc'[c] = "returned" =>
                /\ flag'[c] = FALSE
                /\ ops'[c] = <<>> \/ ops'[c] = Bracket(binary_name'[c])]_vars

C10_Witness ==
    \E c, d \in Conns :
        /\ c # d
        /\ Returned(c) /\ Len(ops[c]) = 3 /\ ~flag[c]
        /\ pc[d] = "load" /\ flag[d]

====
